---- MODULE Spec2Model ----
(***************************************************************************)
(* Model of the fppull statistics pipeline:                                *)
(*   build_player_week_wide.py   long rows -> canonical wide table         *)
(*   compute_points_dynamic.py   wide table + scoring table -> points      *)
(*                                                                         *)
(* Representation.  A Python str is a tuple of one-character strings, so   *)
(* that parsing, case folding, substring tests and lexicographic order are *)
(* computed and not assumed.  A pandas NaN cell is the value NaN.  The     *)
(* float columns of compute_points_dynamic are fixed-point integers:       *)
(*   stat values  in tenths      (unit 1/YardDivisor),                     *)
(*   weights      in hundredths  (unit 1/100),                           *)
(*   products     in thousandths (unit 1/(YardDivisor*100)),             *)
(*   rounded points in hundredths.                                         *)
(* Every value the bounded inputs produce is exact in these units.         *)
(***************************************************************************)
EXTENDS Integers, Sequences, FiniteSets, TLC

VARIABLES
    longFile,     \* player_week_stats_long.csv: sequence of long rows
    scoringFile,  \* scoring_table.csv: [exists, cols, rows]
    wideFile,     \* player_week_stats_wide.csv: [exists, rows]
    pointsFile,   \* player_week_points.csv: [exists, rows]
    run,          \* locals and diagnostics of the last compute_points main()
    again         \* history: which program has been executed again after a
                  \* complete execution; no action reads it

vars == <<longFile, scoringFile, wideFile, pointsFile, run, again>>

\* A pandas NaN cell and a Python None: no str (a tuple of characters) equals them.
NaN == <<"NaN">>
None == <<"None">>

(***************************************************************************)
(* Strings                                                                 *)
(***************************************************************************)
\* The characters the inputs use, in ASCII order.
AsciiChars ==
    << " ", "+", ",", "-", ".", "/",
       "0", "1", "2", "3", "4", "5", "6", "7", "8", "9",
       "A", "B", "C", "D", "E", "F", "G", "H", "I", "J", "K", "L", "M",
       "N", "O", "P", "Q", "R", "S", "T", "U", "V", "W", "X", "Y", "Z",
       "a", "b", "c", "d", "e", "f", "g", "h", "i", "j", "k", "l", "m",
       "n", "o", "p", "q", "r", "s", "t", "u", "v", "w", "x", "y", "z" >>

\* ord(c), up to the order of the characters.
AsciiOf == [c \in {AsciiChars[i] : i \in 1..Len(AsciiChars)} |->
               CHOOSE i \in 1..Len(AsciiChars) : AsciiChars[i] = c]

Ascii(c) == AsciiOf[c]

DigitChars == <<"0", "1", "2", "3", "4", "5", "6", "7", "8", "9">>

IsDigit(c) == Ascii(c) >= Ascii("0") /\ Ascii(c) <= Ascii("9")

DigitVal(c) == Ascii(c) - Ascii("0")

\* str.upper() and str.lower() on one character.
UpperOf == [c \in DOMAIN AsciiOf |->
               IF AsciiOf[c] >= AsciiOf["a"] /\ AsciiOf[c] <= AsciiOf["z"]
               THEN AsciiChars[AsciiOf[c] - AsciiOf["a"] + AsciiOf["A"]] ELSE c]

LowerOf == [c \in DOMAIN AsciiOf |->
               IF AsciiOf[c] >= AsciiOf["A"] /\ AsciiOf[c] <= AsciiOf["Z"]
               THEN AsciiChars[AsciiOf[c] - AsciiOf["A"] + AsciiOf["a"]] ELSE c]

UpperChar(c) == UpperOf[c]

LowerChar(c) == LowerOf[c]

Upper(s) == [i \in 1..Len(s) |-> UpperChar(s[i])]

Lower(s) == [i \in 1..Len(s) |-> LowerChar(s[i])]

RECURSIVE LStrip(_)
LStrip(s) == IF s # <<>> /\ Head(s) = " " THEN LStrip(Tail(s)) ELSE s

RECURSIVE RStrip(_)
RStrip(s) ==
    IF s # <<>> /\ s[Len(s)] = " " THEN RStrip(SubSeq(s, 1, Len(s) - 1)) ELSE s

\* str.strip()
Strip(s) == RStrip(LStrip(s))

\* str.replace(",", "")
RemoveCommas(s) == SelectSeq(s, LAMBDA c : c # ",")

\* pat in s
Contains(s, pat) ==
    \E i \in 1..(Len(s) - Len(pat) + 1) : SubSeq(s, i, i + Len(pat) - 1) = pat

\* s < t for Python str: lexicographic by code point.
RECURSIVE StrLess(_, _)
StrLess(s, t) ==
    IF t = <<>> THEN FALSE
    ELSE IF s = <<>> THEN TRUE
    ELSE IF Head(s) = Head(t) THEN StrLess(Tail(s), Tail(t))
    ELSE Ascii(Head(s)) < Ascii(Head(t))

\* str(n) for an integer n.
RECURSIVE NatStr(_)
NatStr(n) ==
    IF n < 10 THEN <<DigitChars[n + 1]>>
    ELSE NatStr(n \div 10) \o <<DigitChars[(n % 10) + 1]>>

IntStr(n) == IF n < 0 THEN <<"-">> \o NatStr(-n) ELSE NatStr(n)

AllDigits(s) == s # <<>> /\ \A i \in 1..Len(s) : IsDigit(s[i])

RECURSIVE DigitsVal(_)
DigitsVal(s) ==
    IF s = <<>> THEN 0 ELSE 10 * DigitsVal(SubSeq(s, 1, Len(s) - 1)) + DigitVal(s[Len(s)])

(***************************************************************************)
(* build_player_week_wide.py: parse_pair, to_int, extract_numeric          *)
(***************************************************************************)
\* The pattern ^\s*(\d+)\s*[/-]\s*(\d+)\s*$ : the positions of a separator
\* that splits val into two digit runs with optional blanks around them.
PairSplits(val) ==
    {i \in 1..Len(val) :
        /\ val[i] \in {"/", "-"}
        /\ AllDigits(Strip(SubSeq(val, 1, i - 1)))
        /\ AllDigits(Strip(SubSeq(val, i + 1, Len(val))))}

\* int(s) of a digit run raises ValueError when s has more digits than the
\* interpreter's limit for integer string conversion (4300 by default since
\* CPython 3.11 and the security releases of 3.7 to 3.10); an interpreter
\* without the limit reads the number, which is beyond this model's integers.
IntMaxStrDigits == 4300

IntTooLong(s) == Len(s) > IntMaxStrDigits

\* Whether parse_pair raises: the pattern matches and int() refuses a group.
parse_pair_raises(val) ==
    /\ val # None
    /\ PairSplits(val) # {}
    /\ LET i == CHOOSE j \in PairSplits(val) : TRUE
       IN  \/ IntTooLong(Strip(SubSeq(val, 1, i - 1)))
           \/ IntTooLong(Strip(SubSeq(val, i + 1, Len(val))))

parse_pair(val) ==
    IF val = None \/ PairSplits(val) = {} THEN <<0, 0>>
    ELSE LET i == CHOOSE j \in PairSplits(val) : TRUE
         IN  <<DigitsVal(Strip(SubSeq(val, 1, i - 1))),
               DigitsVal(Strip(SubSeq(val, i + 1, Len(val))))>>

\* str(val) of a payload value: a str is itself, a missing label (None) is "None".
PyStr(val) == IF val = None THEN <<"N", "o", "n", "e">> ELSE val

\* A reading that drops a leading sign: the digits alone are converted.
to_int_unsigned(val) ==
    LET s == Strip(RemoveCommas(PyStr(val)))
    IN  IF s = <<>> THEN 0
        ELSE IF AllDigits(s)
             THEN IF IntTooLong(s) THEN 0 ELSE DigitsVal(s)
        ELSE IF Head(s) \in {"-", "+"} /\ AllDigits(Tail(s))
             THEN IF IntTooLong(Tail(s)) THEN 0 ELSE DigitsVal(Tail(s))
        ELSE 0

\* int(s) succeeds on an optional sign followed by digits, no more of them
\* than the limit; every exception is caught and gives 0.
to_int(val) ==
    LET s == Strip(RemoveCommas(PyStr(val)))
    IN  IF s = <<>> THEN 0
        ELSE IF AllDigits(s)
             THEN IF IntTooLong(s) THEN 0 ELSE DigitsVal(s)
        ELSE IF Head(s) \in {"-", "+"} /\ AllDigits(Tail(s))
             THEN IF IntTooLong(Tail(s)) THEN 0
                  ELSE IF Head(s) = "-" THEN 0 - DigitsVal(Tail(s))
                  ELSE DigitsVal(Tail(s))
        ELSE 0

\* out = dict(pass_cmp=0, ...): the 17 canonical fields, all zero.
ZeroStats ==
    [pass_cmp |-> 0, pass_att |-> 0, pass_yds |-> 0, pass_td |-> 0, pass_int |-> 0,
     rush_att |-> 0, rush_yds |-> 0, rush_td |-> 0,
     rec_tgt |-> 0, rec_rec |-> 0, rec_yds |-> 0, rec_td |-> 0,
     fum_lost |-> 0,
     k_fgm |-> 0, k_fga |-> 0, xp_made |-> 0, xp_att |-> 0]

StatFields == DOMAIN ZeroStats

\* norm = {k.upper().strip(): v for k, v in stats.items()}.  Two labels of one
\* payload that normalise to the same key are not among the modelled payloads.
NormStats(stats) ==
    LET keys == {Strip(Upper(k)) : k \in DOMAIN stats}
    IN  [K \in keys |-> stats[CHOOSE k \in DOMAIN stats : Strip(Upper(k)) = K]]

\* dict.get(key, default)
Get(norm, key, default) == IF key \in DOMAIN norm THEN norm[key] ELSE default

\* Whether extract_numeric raises: the branch taken calls parse_pair, outside
\* any try, on a value it raises on.
extract_numeric_raises(stat_group, stats) ==
    LET norm == NormStats(stats)
        sg == Lower(stat_group)
        Pair(k) == k \in DOMAIN norm /\ parse_pair_raises(PyStr(norm[k]))
    IN  IF Contains(sg, <<"p", "a", "s", "s", "i", "n", "g">>)
        THEN IF <<"C", "/", "A", "T", "T">> \in DOMAIN norm THEN Pair(<<"C", "/", "A", "T", "T">>) ELSE Pair(<<"C", "M", "P", "/", "A", "T", "T">>)
        ELSE IF \/ Contains(sg, <<"r", "u", "s", "h", "i", "n", "g">>) \/ Contains(sg, <<"r", "e", "c", "e", "i", "v", "i", "n", "g">>)
                \/ Contains(sg, <<"f", "u", "m", "b", "l", "e", "s">>) \/ Contains(sg, <<"m", "i", "s", "c">>)
        THEN FALSE
        ELSE IF Contains(sg, <<"k", "i", "c", "k", "i", "n", "g">>)
        THEN Pair(<<"F", "G", "M", "-", "A">>) \/ Pair(<<"X", "P", "M", "-", "A">>)
        ELSE FALSE

extract_numeric(stat_group, stats) ==
    LET norm == NormStats(stats)
        sg == Lower(stat_group)
        G(k) == Get(norm, k, None)
        G2(k, k2) == Get(norm, k, Get(norm, k2, None))
    IN  IF Contains(sg, <<"p", "a", "s", "s", "i", "n", "g">>)
        THEN LET ca == IF <<"C", "/", "A", "T", "T">> \in DOMAIN norm
                       THEN parse_pair(PyStr(norm[<<"C", "/", "A", "T", "T">>]))
                       ELSE IF <<"C", "M", "P", "/", "A", "T", "T">> \in DOMAIN norm
                       THEN parse_pair(PyStr(norm[<<"C", "M", "P", "/", "A", "T", "T">>]))
                       ELSE <<to_int(G2(<<"C", "M", "P">>, <<"C">>)), to_int(G(<<"A", "T", "T">>))>>
             IN  [ZeroStats EXCEPT !.pass_cmp = ca[1], !.pass_att = ca[2],
                                   !.pass_yds = to_int(G(<<"Y", "D", "S">>)),
                                   !.pass_td = to_int(G(<<"T", "D">>)),
                                   !.pass_int = to_int(G(<<"I", "N", "T">>))]
        ELSE IF Contains(sg, <<"r", "u", "s", "h", "i", "n", "g">>)
        THEN [ZeroStats EXCEPT !.rush_att = to_int(G2(<<"C", "A", "R">>, <<"A", "T", "T">>)),
                               !.rush_yds = to_int(G(<<"Y", "D", "S">>)),
                               !.rush_td = to_int(G(<<"T", "D">>))]
        ELSE IF Contains(sg, <<"r", "e", "c", "e", "i", "v", "i", "n", "g">>)
        THEN [ZeroStats EXCEPT !.rec_tgt = to_int(G2(<<"T", "G", "T">>, <<"T", "A", "R">>)),
                               !.rec_rec = to_int(G2(<<"R", "E", "C">>, <<"R", "E", "C", "E", "P", "T", "I", "O", "N", "S">>)),
                               !.rec_yds = to_int(G(<<"Y", "D", "S">>)),
                               !.rec_td = to_int(G(<<"T", "D">>))]
        ELSE IF Contains(sg, <<"f", "u", "m", "b", "l", "e", "s">>) \/ Contains(sg, <<"m", "i", "s", "c">>)
        THEN [ZeroStats EXCEPT !.fum_lost =
                 to_int(Get(norm, <<"L", "O", "S", "T">>, Get(norm, <<"F", "U", "M", " ", "L", "O", "S", "T">>, G2(<<"L", "S", "T">>, <<"F", "L">>))))]
        ELSE IF Contains(sg, <<"k", "i", "c", "k", "i", "n", "g">>)
        THEN LET fg == IF <<"F", "G", "M", "-", "A">> \in DOMAIN norm
                       THEN parse_pair(PyStr(norm[<<"F", "G", "M", "-", "A">>]))
                       ELSE <<to_int(G2(<<"F", "G", "M">>, <<"F", "G">>)), to_int(G(<<"F", "G", "A">>))>>
                 xp == IF <<"X", "P", "M", "-", "A">> \in DOMAIN norm
                       THEN parse_pair(PyStr(norm[<<"X", "P", "M", "-", "A">>]))
                       ELSE <<to_int(G(<<"X", "P", "M">>)), to_int(G(<<"X", "P", "A">>))>>
             IN  [ZeroStats EXCEPT !.k_fgm = fg[1], !.k_fga = fg[2],
                                   !.xp_made = xp[1], !.xp_att = xp[2]]
        ELSE ZeroStats

(***************************************************************************)
(* pandas helpers                                                          *)
(***************************************************************************)
RECURSIVE SumSeq(_)
SumSeq(s) == IF s = <<>> THEN 0 ELSE Head(s) + SumSeq(Tail(s))

MaxOf(S) == CHOOSE x \in S : \A y \in S : y <= x

SeqRange(s) == {s[i] : i \in 1..Len(s)}

Column(rows, c) == [i \in 1..Len(rows) |-> rows[i][c]]

\* pd.isna on one cell of a str column
IsNaN(x) == x = NaN

\* a < b for two tuples of cells, as pandas orders the keys of a groupby or of a
\* sort: kinds[i] says whether cell i is an integer (by value) or a str (by code point).
RECURSIVE TupleLess(_, _, _)
TupleLess(a, b, kinds) ==
    IF a = <<>> THEN FALSE
    ELSE IF Head(a) = Head(b) THEN TupleLess(Tail(a), Tail(b), Tail(kinds))
    ELSE IF Head(kinds) = "int" THEN Head(a) < Head(b)
    ELSE StrLess(Head(a), Head(b))

\* The group keys of a groupby (sort=True), in ascending order.
SortedKeys(S, kinds) ==
    [k \in 1..Cardinality(S) |->
        CHOOSE x \in S : 1 + Cardinality({y \in S : TupleLess(y, x, kinds)}) = k]

(***************************************************************************)
(* build_player_week_wide.py: main                                         *)
(***************************************************************************)
KEEP_GROUPS == {<<"p", "a", "s", "s", "i", "n", "g">>, <<"r", "u", "s", "h", "i", "n", "g">>, <<"r", "e", "c", "e", "i", "v", "i", "n", "g">>, <<"f", "u", "m", "b", "l", "e", "s">>, <<"k", "i", "c", "k", "i", "n", "g">>}

base_cols ==
    <<"season", "week", "event_id", "team_abbr", "athlete_id", "athlete_name", "position">>

\* The dtype read_csv gives each base column: int64, or object (str, NaN if empty).
base_kinds == <<"int", "int", "int", "str", "int", "str", "str">>

KeyOf(row, cols) == [i \in 1..Len(cols) |-> row[cols[i]]]

\* A record with the columns cols set from the tuple key.
KeyRecord(key, cols) ==
    [c \in SeqRange(cols) |-> key[CHOOSE i \in 1..Len(cols) : cols[i] = c]]

\* df["stat_group"].str.lower(), then df[df["stat_group"].isin(KEEP_GROUPS)]
KeptRows(long) ==
    SelectSeq([i \in 1..Len(long) |->
                   [long[i] EXCEPT !.stat_group = Lower(long[i].stat_group)]],
              LAMBDA r : r.stat_group \in KEEP_GROUPS)

\* pd.concat([df[base_cols], num_df], axis=1): identity columns beside the 17 stats.
ConcatRows(kept) ==
    [i \in 1..Len(kept) |->
        KeyRecord(KeyOf(kept[i], base_cols), base_cols)
            @@ extract_numeric(kept[i].stat_group, kept[i].stats)]

\* groupby(base_cols, as_index=False).agg(sum): one row per distinct value of
\* the seven base columns, each stat summed; the default dropna=True drops the
\* rows with a NaN in a grouping column; the groups come out in key order.
GroupSum(rows) ==
    LET valid == SelectSeq(rows, LAMBDA r :
                     \A i \in 1..Len(base_cols) :
                         base_kinds[i] = "str" => ~IsNaN(r[base_cols[i]]))
        keys == SortedKeys({KeyOf(r, base_cols) : r \in SeqRange(valid)}, base_kinds)
        Members(k) == SelectSeq(valid, LAMBDA r : KeyOf(r, base_cols) = k)
    IN  [g \in 1..Len(keys) |->
            KeyRecord(keys[g], base_cols)
                @@ [f \in StatFields |-> SumSeq(Column(Members(keys[g]), f))]]

\* .sort_values(["week", "team_abbr", "athlete_name"])
WideSortLess(a, b) ==
    TupleLess(<<a.week, a.team_abbr, a.athlete_name>>,
              <<b.week, b.team_abbr, b.athlete_name>>, <<"int", "str", "str">>)

\* DataFrame.sort_values: a stable sort of the rows.
StableSort(s) ==
    LET Before(i, j) == WideSortLess(s[i], s[j]) \/ (~WideSortLess(s[j], s[i]) /\ i < j)
        Pos(i) == 1 + Cardinality({j \in 1..Len(s) : Before(j, i)})
    IN  [k \in 1..Len(s) |-> s[CHOOSE i \in 1..Len(s) : Pos(i) = k]]

BuildWide(long) == StableSort(GroupSum(ConcatRows(KeptRows(long))))

\* Whether the extractor raises on a row that passed the group filter.
ExtractionRaises(long) ==
    \E r \in SeqRange(KeptRows(long)) : extract_numeric_raises(r.stat_group, r.stats)

(***************************************************************************)
(* compute_points_dynamic.py                                               *)
(***************************************************************************)
\* The divisor of the tenths -> yards correction; 1/YardDivisor is also the
\* fixed-point unit of the float stat columns.
YardDivisor == 10

\* The > 1000.0 threshold of the unit heuristic, in yards.
YardLimit == 1000

STATID_TO_METRIC ==
    (3 :> [metric |-> "pass_yds", mode |-> "per_unit", scale |-> 1])
 @@ (25 :> [metric |-> "pass_td", mode |-> "count", scale |-> 1])
 @@ (26 :> [metric |-> "pass_int", mode |-> "count", scale |-> 1])
 @@ (24 :> [metric |-> "rush_yds", mode |-> "per_unit", scale |-> 1])
 @@ (27 :> [metric |-> "rush_td", mode |-> "count", scale |-> 1])
 @@ (42 :> [metric |-> "rec_rec", mode |-> "count", scale |-> 1])
 @@ (43 :> [metric |-> "rec_yds", mode |-> "per_unit", scale |-> 1])
 @@ (44 :> [metric |-> "rec_td", mode |-> "count", scale |-> 1])
 @@ (52 :> [metric |-> "fum_lost", mode |-> "count", scale |-> 1])
 @@ (86 :> [metric |-> "xp_made", mode |-> "count", scale |-> 1])

WIDE_NUMERIC_COLS ==
    <<"pass_yds", "pass_td", "pass_int", "rush_yds", "rush_td",
      "rec_rec", "rec_yds", "rec_td", "fum_lost",
      "xp_made", "xp_att", "k_fgm", "k_fga">>

YARD_COLS == <<"pass_yds", "rush_yds", "rec_yds">>

KEY_COLS == <<"season", "week", "team_abbr", "athlete_name">>

key_kinds == <<"str", "str", "str", "str">>

\* A scoring cell is [ok, v]: ok is whether pd.to_numeric can read it, v its
\* value (statId an integer, points in hundredths).
\* df[pd.to_numeric(df["statId"], errors="coerce").notnull()], then
\* points = pd.to_numeric(points, errors="coerce").fillna(0.0)
_load_scoring(rows) ==
    LET numeric == SelectSeq(rows, LAMBDA r : r.statId.ok)
    IN  [i \in 1..Len(numeric) |->
            [statId |-> numeric[i].statId.v,
             points |-> IF numeric[i].points.ok THEN numeric[i].points.v ELSE 0]]

\* The loop of _build_weight_config over the rows, in order: acc is
\* [weights, unknown] so far.
RECURSIVE WeightLoop(_, _)
WeightLoop(rows, acc) ==
    IF rows = <<>> THEN acc
    ELSE LET sid == Head(rows).statId
             pts == Head(rows).points
         IN  IF sid \notin DOMAIN STATID_TO_METRIC
             THEN WeightLoop(Tail(rows), [acc EXCEPT !.unknown = Append(@, sid)])
             ELSE LET meta == STATID_TO_METRIC[sid]
                  IN  IF meta.mode \notin {"per_unit", "count"}
                      THEN WeightLoop(Tail(rows), acc)
                      ELSE WeightLoop(Tail(rows),
                               [acc EXCEPT !.weights =
                                    (meta.metric :> pts * meta.scale) @@ @])

\* The documented defaults, in hundredths.
defaults ==
    [pass_yds |-> 4, pass_td |-> 400, pass_int |-> -200,
     rush_yds |-> 10, rush_td |-> 600,
     rec_rec |-> 100, rec_yds |-> 10, rec_td |-> 600,
     fum_lost |-> -200,
     xp_made |-> 100]

\* Defaults applied over the configured values.
build_weight_config_defaults_win(scoring_df) ==
    LET acc == WeightLoop(scoring_df, [weights |-> <<>>, unknown |-> <<>>])
    IN  [weights |-> defaults @@ acc.weights,
         unknown |-> SeqRange(acc.unknown)]

\* weights.setdefault(k, v) for every default: a key already set is kept.
\* unknown is what the diagnostic prints: sorted(set(unknown)).
_build_weight_config(scoring_df) ==
    LET acc == WeightLoop(scoring_df, [weights |-> <<>>, unknown |-> <<>>])
    IN  [weights |-> acc.weights @@ defaults,
         unknown |-> SeqRange(acc.unknown)]

\* A float column holds the integer v as v * YardDivisor.
ToFloat(v) == v * YardDivisor

\* _ensure_columns on the rows read back from the wide CSV: the key columns
\* become str, the numeric columns float; every other column is kept.
_ensure_columns(wide) ==
    [i \in 1..Len(wide) |->
        [c \in DOMAIN wide[i] |->
            IF c \in {"season", "week"} THEN IntStr(wide[i][c])
            ELSE IF c \in SeqRange(WIDE_NUMERIC_COLS) THEN ToFloat(wide[i][c])
            ELSE wide[i][c]]]

\* groupby(KEY_COLS, as_index=False, dropna=False)[WIDE_NUMERIC_COLS].max():
\* one row per key, holding the key columns and the numeric columns only.
_collapse_player_weeks(wide) ==
    LET keys == SortedKeys({KeyOf(r, KEY_COLS) : r \in SeqRange(wide)}, key_kinds)
        Members(k) == SelectSeq(wide, LAMBDA r : KeyOf(r, KEY_COLS) = k)
    IN  [g \in 1..Len(keys) |->
            KeyRecord(keys[g], KEY_COLS)
                @@ [c \in SeqRange(WIDE_NUMERIC_COLS) |->
                        MaxOf(SeqRange(Column(Members(keys[g]), c)))]]

\* The columns of the collapsed frame.
CollapsedColumns == SeqRange(KEY_COLS) \cup SeqRange(WIDE_NUMERIC_COLS)

\* if "position" not in wide.columns: wide["position"] = ""
\* else: wide["position"] = wide["position"].fillna("").astype(str)
FillPosition(wide) ==
    [i \in 1..Len(wide) |->
        IF "position" \notin CollapsedColumns
        THEN ("position" :> <<>>) @@ wide[i]
        ELSE [wide[i] EXCEPT !.position = IF IsNaN(@) THEN <<>> ELSE @]]

\* max(float(w[c].max()) for c in YARD_COLS); the max of an empty column is
\* NaN, which no comparison exceeds: HasYardMax is false then.
HasYardMax(wide) == wide # <<>>

YardMax(wide) ==
    MaxOf({wide[i][YARD_COLS[j]] : i \in 1..Len(wide), j \in 1..Len(YARD_COLS)})

\* yard_max > 1000.0
TenthsDetected(wide) == HasYardMax(wide) /\ YardMax(wide) > ToFloat(YardLimit)

\* A per-record correction: only the rows whose own yardage is above the limit.
normalize_per_record(wide) ==
    [i \in 1..Len(wide) |->
        [c \in DOMAIN wide[i] |->
            IF c \in SeqRange(YARD_COLS) /\ TenthsDetected(<<wide[i]>>)
            THEN wide[i][c] \div YardDivisor
            ELSE wide[i][c]]]

_normalize_yard_units(wide) ==
    IF TenthsDetected(wide)
    THEN [i \in 1..Len(wide) |->
            [c \in DOMAIN wide[i] |->
                IF c \in SeqRange(YARD_COLS) THEN wide[i][c] \div YardDivisor
                ELSE wide[i][c]]]
    ELSE wide

\* weights.get(k, 0.0)
WeightGet(weights, k) == IF k \in DOMAIN weights THEN weights[k] ELSE 0

\* _safe(wide, col) * weights.get(col, 0.0), in units of 1/(YardDivisor*100)
Term(row, weights, col) == row[col] * WeightGet(weights, col)

\* Series.round(2) of x given in units of 1/(YardDivisor*100): the nearest
\* hundredth, a tie going to the even one.
Round2(x) ==
    LET q == x \div YardDivisor
        r == x % YardDivisor
    IN  IF 2 * r < YardDivisor THEN q
        ELSE IF 2 * r > YardDivisor THEN q + 1
        ELSE IF q % 2 = 0 THEN q ELSE q + 1

\* Interceptions scored with the touchdown weight.
pts_pass_td_weight(row, weights) ==
    Term(row, weights, "pass_yds") + Term(row, weights, "pass_td")
        + row.pass_int * WeightGet(weights, "pass_td")

pts_pass(row, weights) ==
    Term(row, weights, "pass_yds") + Term(row, weights, "pass_td")
        + Term(row, weights, "pass_int")

pts_rush(row, weights) == Term(row, weights, "rush_yds") + Term(row, weights, "rush_td")

pts_rec(row, weights) ==
    Term(row, weights, "rec_rec") + Term(row, weights, "rec_yds")
        + Term(row, weights, "rec_td")

\* Field-goal makes scored at a flat rate.
pts_kick_flat_fg(row, weights) == Term(row, weights, "xp_made") + row.k_fgm * 300

pts_kick(row, weights) == Term(row, weights, "xp_made")

pts_misc(row, weights) == Term(row, weights, "fum_lost")

\* The total as one rounding of the unrounded sum.
points_row_round_total(row, weights) ==
    LET pass == Round2(pts_pass(row, weights))
        rush == Round2(pts_rush(row, weights))
        rec  == Round2(pts_rec(row, weights))
        kick == Round2(pts_kick(row, weights))
        misc == Round2(pts_misc(row, weights))
    IN  [season |-> row.season, week |-> row.week, team_abbr |-> row.team_abbr,
         athlete_name |-> row.athlete_name, position |-> row.position,
         pts_pass |-> pass, pts_rush |-> rush, pts_rec |-> rec,
         pts_kick |-> kick, pts_misc |-> misc,
         pts_ppr |-> Round2(pts_pass(row, weights) + pts_rush(row, weights)
                                + pts_rec(row, weights) + pts_kick(row, weights)
                                + pts_misc(row, weights))]

\* One row of the points table.  pts_ppr rounds a sum of hundredths, which is
\* that sum.
PointsRow(row, weights) ==
    LET pass == Round2(pts_pass(row, weights))
        rush == Round2(pts_rush(row, weights))
        rec  == Round2(pts_rec(row, weights))
        kick == Round2(pts_kick(row, weights))
        misc == Round2(pts_misc(row, weights))
    IN  [season |-> row.season, week |-> row.week, team_abbr |-> row.team_abbr,
         athlete_name |-> row.athlete_name, position |-> row.position,
         pts_pass |-> pass, pts_rush |-> rush, pts_rec |-> rec,
         pts_kick |-> kick, pts_misc |-> misc,
         pts_ppr |-> pass + rush + rec + kick + misc]

ComputeOut(wide, weights) == [i \in 1..Len(wide) |-> PointsRow(wide[i], weights)]

(***************************************************************************)
(* Bounds and input domains                                                *)
(***************************************************************************)
MaxRows == 2      \* rows of the long file
MaxScoring == 2   \* rows of the scoring table

QB == <<"Q", "B">>
RB == <<"R", "B">>
KC == <<"K", "C">>

\* One row of player_week_stats_long.csv.
LongRow(week, event_id, name, position, stat_group, stats) ==
    [season |-> 2024, week |-> week, event_id |-> event_id, team_abbr |-> KC,
     athlete_id |-> 15, athlete_name |-> name, position |-> position,
     stat_group |-> stat_group, stats |-> stats]

Passing(yds, td, int) ==
    [stat_group |-> <<"P", "a", "s", "s", "i", "n", "g">>,
     stats |-> (<<"C", "/", "A", "T", "T">> :> <<"2", "3", "/", "3", "5">>)
            @@ (<<"Y", "D", "S">> :> yds) @@ (<<"T", "D">> :> td)
            @@ (<<"I", "N", "T">> :> int)]

Rushing(yds, td) ==
    [stat_group |-> <<"r", "u", "s", "h", "i", "n", "g">>, stats |-> (<<"C", "A", "R">> :> NatStr(9)) @@ (<<"Y", "d", "s">> :> yds) @@ (<<"T", "D">> :> td)]

Receiving(rec, yds, td) ==
    [stat_group |-> <<"r", "e", "c", "e", "i", "v", "i", "n", "g">>,
     stats |-> (<<"R", "E", "C">> :> rec) @@ (<<"Y", "D", "S", " ">> :> yds) @@ (<<"T", "D">> :> td)]

Fumbles(lost) == [stat_group |-> <<"f", "u", "m", "b", "l", "e", "s">>, stats |-> (<<"F", "U", "M">> :> NatStr(1)) @@ (<<"L", "O", "S", "T">> :> lost)]

Kicking(fg, xp) ==
    [stat_group |-> <<"k", "i", "c", "k", "i", "n", "g">>,
     stats |-> (<<"F", "G", "M", "-", "A">> :> fg) @@ (<<"X", "P", "M", "-", "A">> :> xp)]

Defensive ==
    [stat_group |-> <<"d", "e", "f", "e", "n", "s", "i", "v", "e">>,
     stats |-> (<<"T", "O", "T">> :> NatStr(7)) @@ (<<"Y", "D", "S">> :> NatStr(12))]

RowsOf(weeks, events, names, positions, payloads) ==
    {LongRow(w, e, n, p, x.stat_group, x.stats) :
        w \in weeks, e \in events, n \in names, p \in positions, x \in payloads}

\* One row of scoring_table.csv: statId and points as pd.to_numeric reads them.
ScoringRow(statId, points) == [statId |-> statId, points |-> points]

Num(v) == [ok |-> TRUE, v |-> v]

NotNumeric == [ok |-> FALSE, v |-> 0]

(***************************************************************************)
(* The state machine                                                       *)
(***************************************************************************)
\* The keys of the records main reports as implausible.  main compares no
\* field with a limit and prints no warning: under DEBUG_POINTS=1 it lists the
\* ten largest values of four columns, whatever they are.
PlausibilityWarnings(wide) == {}

NoRun ==
    [status |-> "none", collapsed |-> <<>>, wide |-> <<>>, notice |-> FALSE,
     weights |-> <<>>, unknown |-> {}, warnings |-> {}]

Init ==
    /\ longFile = <<>>
    /\ scoringFile = [exists |-> TRUE, cols |-> TRUE, rows |-> <<>>]
    /\ wideFile = [exists |-> FALSE, rows |-> <<>>]
    /\ pointsFile = [exists |-> FALSE, rows |-> <<>>]
    /\ run = NoRun
    /\ again = [wide |-> FALSE, points |-> FALSE]

\* The batch is complete before either program runs.
InputOpen == ~wideFile.exists /\ run.status = "none"

\* The upstream fetch appends one row to the long file.
AddLongRow(rows) ==
    /\ InputOpen
    /\ Len(longFile) < MaxRows
    /\ \E r \in rows : longFile' = Append(longFile, r)
    /\ UNCHANGED <<scoringFile, wideFile, pointsFile, run, again>>

\* The league's scoring table gets one more row.
AddScoringRow(rows) ==
    /\ InputOpen
    /\ scoringFile.exists
    /\ Len(scoringFile.rows) < MaxScoring
    /\ \E r \in rows : scoringFile' = [scoringFile EXCEPT !.rows = Append(@, r)]
    /\ UNCHANGED <<longFile, wideFile, pointsFile, run, again>>

\* The wide table opened for appending: an execution adds its rows to the
\* rows of the table already on disk.
build_wide_main_appends ==
    /\ IF KeptRows(longFile) = <<>>
       THEN wideFile' \in {wideFile, [exists |-> TRUE, rows |-> <<>>]}
       ELSE IF ExtractionRaises(longFile)
       THEN wideFile' = wideFile
       ELSE wideFile' = [exists |-> TRUE, rows |-> wideFile.rows \o BuildWide(longFile)]
    /\ again' = [again EXCEPT !.wide = @ \/ wideFile.exists]
    /\ UNCHANGED <<longFile, scoringFile, pointsFile, run>>

\* build_player_week_wide.main().  With no row left after the group filter the
\* frame of numerics has no columns and agg() is handed an empty mapping:
\* depending on the pandas build this raises before the file is written, or
\* writes a table with no rows.  An exception of the extractor ends the
\* program before the file is written.
BuildWideMain ==
    /\ IF KeptRows(longFile) = <<>>
       THEN wideFile' \in {wideFile, [exists |-> TRUE, rows |-> <<>>]}
       ELSE IF ExtractionRaises(longFile)
       THEN wideFile' = wideFile
       ELSE wideFile' = [exists |-> TRUE, rows |-> BuildWide(longFile)]
    /\ again' = [again EXCEPT !.wide = @ \/ wideFile.exists]
    /\ UNCHANGED <<longFile, scoringFile, pointsFile, run>>

\* The scoring table as the scoring fetch leaves it: absent, without the
\* statId or points column, or well formed.
SetScoringTable(tables) ==
    /\ \E s \in tables : s # scoringFile /\ scoringFile' = s
    /\ UNCHANGED <<longFile, wideFile, pointsFile, run, again>>

\* The points table written from the default weights before the scoring
\* table is looked for.
compute_points_main_writes_first ==
    /\ again' = [again EXCEPT !.points = @ \/ run.status = "ok"]
    /\ IF ~wideFile.exists
       THEN /\ run' = [NoRun EXCEPT !.status = "fail"]
            /\ UNCHANGED <<longFile, scoringFile, wideFile, pointsFile>>
       ELSE LET collapsed == FillPosition(_collapse_player_weeks(_ensure_columns(wideFile.rows)))
                wide == _normalize_yard_units(collapsed)
                notice == TenthsDetected(collapsed)
            IN  IF ~scoringFile.exists \/ ~scoringFile.cols
                THEN /\ run' = [NoRun EXCEPT !.status = "fail", !.collapsed = collapsed,
                                             !.wide = wide, !.notice = notice,
                                             !.warnings = PlausibilityWarnings(wide)]
                     /\ pointsFile' = [exists |-> TRUE, rows |-> ComputeOut(wide, defaults)]
                     /\ UNCHANGED <<longFile, scoringFile, wideFile>>
                ELSE LET cfg == _build_weight_config(_load_scoring(scoringFile.rows))
                     IN  /\ run' = [status |-> "ok", collapsed |-> collapsed, wide |-> wide,
                                    notice |-> notice, weights |-> cfg.weights,
                                    unknown |-> cfg.unknown,
                                    warnings |-> PlausibilityWarnings(wide)]
                         /\ pointsFile' = [exists |-> TRUE, rows |-> ComputeOut(wide, cfg.weights)]
                         /\ UNCHANGED <<longFile, scoringFile, wideFile>>

\* compute_points_dynamic.main(): sys.exit(1) on a missing wide file, and, after
\* the collapse and the unit correction, on a missing or malformed scoring table;
\* otherwise the points table is written.
ComputePointsMain ==
    /\ again' = [again EXCEPT !.points = @ \/ run.status = "ok"]
    /\ IF ~wideFile.exists
       THEN /\ run' = [NoRun EXCEPT !.status = "fail"]
            /\ UNCHANGED <<longFile, scoringFile, wideFile, pointsFile>>
       ELSE LET collapsed == FillPosition(_collapse_player_weeks(_ensure_columns(wideFile.rows)))
                wide == _normalize_yard_units(collapsed)
                notice == TenthsDetected(collapsed)
            IN  IF ~scoringFile.exists \/ ~scoringFile.cols
                THEN /\ run' = [NoRun EXCEPT !.status = "fail", !.collapsed = collapsed,
                                             !.wide = wide, !.notice = notice,
                                             !.warnings = PlausibilityWarnings(wide)]
                     /\ UNCHANGED <<longFile, scoringFile, wideFile, pointsFile>>
                ELSE LET cfg == _build_weight_config(_load_scoring(scoringFile.rows))
                     IN  /\ run' = [status |-> "ok", collapsed |-> collapsed, wide |-> wide,
                                    notice |-> notice, weights |-> cfg.weights,
                                    unknown |-> cfg.unknown,
                                    warnings |-> PlausibilityWarnings(wide)]
                         /\ pointsFile' = [exists |-> TRUE, rows |-> ComputeOut(wide, cfg.weights)]
                         /\ UNCHANGED <<longFile, scoringFile, wideFile>>

(***************************************************************************)
(* Specifications: the same programs on different bounded inputs           *)
(***************************************************************************)
Allen == <<"A", "l", "l", "e", "n">>
Kelce == <<"K", "e", "l", "c", "e">>

\* Aggregation: one player in two weeks, with duplicate snapshots, two
\* categories and a negative yardage; and one player-week whose rows split by
\* event and by position (reported, differing, or missing).
AggRows ==
    RowsOf({2, 10}, {1}, {Allen}, {QB},
           {Passing(NatStr(120), NatStr(1), NatStr(0)),
            Passing(NatStr(310), NatStr(2), NatStr(1)),
            Rushing(NatStr(40), NatStr(0)),
            Rushing(<<"-", "4">>, NatStr(0))})
    \cup
    RowsOf({2}, {1, 2}, {Allen}, {QB, RB, NaN},
           {Passing(NatStr(310), NatStr(2), NatStr(1)),
            Rushing(<<"-", "4">>, NatStr(0))})
    \cup
    RowsOf({2}, {1}, {Allen}, {QB}, {Defensive})

NextAgg ==
    \/ AddLongRow(AggRows)
    \/ BuildWideMain
    \/ ComputePointsMain

SpecAgg == Init /\ [][NextAgg]_vars

\* Unit correction: two players whose yardage lies on both sides of the
\* 1000-yard threshold, in whole yards or in tenths.
UnitRows ==
    RowsOf({2}, {1}, {Allen, Kelce}, {QB},
           {Passing(NatStr(380), NatStr(2), NatStr(1)),
            Passing(NatStr(1000), NatStr(2), NatStr(1)),
            Passing(NatStr(1001), NatStr(2), NatStr(1)),
            Passing(NatStr(2450), NatStr(2), NatStr(1)),
            Rushing(NatStr(40), NatStr(1)),
            Receiving(NatStr(5), <<"1", ",", "2", "0", "4">>, NatStr(0))})

NextUnits ==
    \/ AddLongRow(UnitRows)
    \/ BuildWideMain
    \/ ComputePointsMain

SpecUnits == Init /\ [][NextUnits]_vars

\* Weight resolution: scoring rows whose identifier is in the catalog (25), a
\* field-goal bucket (74), unrecognised (999) or not a number, with a point
\* value that is a number or not; one player-week to score.
WeightScoring ==
    {ScoringRow(id, pts) :
        id \in {Num(25), Num(74), Num(999), NotNumeric},
        pts \in {Num(600), NotNumeric}}
    \cup {ScoringRow(Num(999), Num(300))}

WeightRows == RowsOf({2}, {1}, {Allen}, {QB}, {Passing(NatStr(300), NatStr(2), NatStr(1))})

NextWeights ==
    \/ AddLongRow(WeightRows)
    \/ AddScoringRow(WeightScoring)
    \/ BuildWideMain
    \/ ComputePointsMain

SpecWeights == Init /\ [][NextWeights]_vars

\* Scoring: one player-week with rows of every category (one of them with a
\* yardage in tenths, so that corrected records are scored too), under a table
\* that sets a touchdown weight and a field-goal bucket.
PointRows ==
    RowsOf({2}, {1}, {Allen}, {QB},
           {Passing(NatStr(300), NatStr(2), NatStr(1)),
            Passing(NatStr(1001), NatStr(0), NatStr(0)),
            Rushing(NatStr(47), NatStr(1)),
            Receiving(NatStr(5), NatStr(62), NatStr(1)),
            Fumbles(NatStr(1)),
            Kicking(<<"2", "-", "3">>, <<"3", "-", "4">>)})

PointScoring == {ScoringRow(Num(25), Num(600)), ScoringRow(Num(74), Num(300))}

Next ==
    \/ AddLongRow(PointRows)
    \/ AddScoringRow(PointScoring)
    \/ BuildWideMain
    \/ ComputePointsMain

Spec == Init /\ [][Next]_vars

\* Rounding: yardage in tenths (1001 and 1004 tenths of a yard) under yardage
\* weights of 0.04, so that a subtotal has a third decimal before rounding:
\* 100.4 * 0.04 = 4.016.  No product of these inputs ends in 5 thousandths.
RoundRows ==
    RowsOf({2}, {1}, {Allen}, {QB},
           {Passing(NatStr(1004), NatStr(1), NatStr(0)),
            Passing(NatStr(1001), NatStr(0), NatStr(0)),
            Rushing(NatStr(1004), NatStr(0))})
    \cup
    RowsOf({2}, {1}, {Kelce}, {QB}, {Rushing(NatStr(1004), NatStr(0))})

RoundScoring == {ScoringRow(Num(24), Num(4)), ScoringRow(Num(3), Num(6))}

NextRound ==
    \/ AddLongRow(RoundRows)
    \/ AddScoringRow(RoundScoring)
    \/ BuildWideMain
    \/ ComputePointsMain

SpecRound == Init /\ [][NextRound]_vars

\* Missing input: the scoring table is absent, lacks a required column, is
\* empty or has one row, and changes between executions.
ErrRows ==
    RowsOf({2}, {1}, {Allen, Kelce}, {QB},
           {Passing(NatStr(300), NatStr(2), NatStr(1)), Rushing(NatStr(47), NatStr(1))})

ErrTables ==
    {[exists |-> FALSE, cols |-> FALSE, rows |-> <<>>],
     [exists |-> TRUE, cols |-> FALSE, rows |-> <<>>],
     [exists |-> TRUE, cols |-> TRUE, rows |-> <<>>],
     [exists |-> TRUE, cols |-> TRUE, rows |-> <<ScoringRow(Num(25), Num(600))>>]}

NextErr ==
    \/ AddLongRow(ErrRows)
    \/ SetScoringTable(ErrTables)
    \/ BuildWideMain
    \/ ComputePointsMain

SpecErr == Init /\ [][NextErr]_vars

\* Extraction: every category name the extractor dispatches on, one it does
\* not, and payloads whose labels are missing or whose values are empty (""),
\* absent (None), not a number ("--", "2 TD") or a pair that does not match
\* ("23/35/1", "23"), or a pair whose first number has one digit more than
\* int() converts.
LongDigits == [i \in 1..(IntMaxStrDigits + 1) |-> "1"]

ExtractPayloads ==
    {[stat_group |-> <<"P", "a", "s", "s", "i", "n", "g">>,
      stats |-> (<<"C", "/", "A", "T", "T">> :> <<"2", "3", "/", "3", "5", "/", "1">>) @@ (<<"Y", "D", "S">> :> <<>>) @@ (<<"T", "D">> :> <<"2", " ", "T", "D">>)],
     [stat_group |-> <<"p", "a", "s", "s", "i", "n", "g">>,
      stats |-> (<<"c", "m", "p">> :> <<"2", "1">>) @@ (<<" ", "A", "t", "t">> :> <<"3", "0">>) @@ (<<"Y", "D", "S">> :> <<"-", "-">>) @@ (<<"I", "N", "T">> :> None)],
     [stat_group |-> <<"r", "u", "s", "h", "i", "n", "g">>, stats |-> <<>>],
     [stat_group |-> <<"R", "e", "c", "e", "i", "v", "i", "n", "g">>,
      stats |-> (<<"T", "A", "R">> :> <<"7">>) @@ (<<"R", "e", "c", "e", "p", "t", "i", "o", "n", "s">> :> <<"5">>) @@ (<<"Y", "D", "S">> :> <<"6", "2">>)],
     [stat_group |-> <<"m", "i", "s", "c">>, stats |-> (<<"F", "L">> :> <<"1">>) @@ (<<"Y", "D", "S">> :> <<"9">>)],
     [stat_group |-> <<"f", "u", "m", "b", "l", "e", "s">>, stats |-> (<<"F", "U", "M">> :> <<"2">>) @@ (<<"L", "s", "t">> :> <<"1">>)],
     [stat_group |-> <<"k", "i", "c", "k", "i", "n", "g">>,
      stats |-> (<<"F", "G">> :> <<"2">>) @@ (<<"F", "G", "A">> :> <<"n", "/", "a">>) @@ (<<"X", "P", "M", "-", "A">> :> <<"2", "3">>)],
     [stat_group |-> <<"p", "a", "s", "s", "i", "n", "g">>,
      stats |-> (<<"C", "/", "A", "T", "T">> :> (LongDigits \o <<"/", "3", "5">>)) @@ (<<"Y", "D", "S">> :> <<"3", "0", "1">>)],
     Defensive}

ExtractRows == RowsOf({2}, {1}, {Allen}, {QB}, ExtractPayloads)

NextExtract ==
    \/ AddLongRow(ExtractRows)
    \/ BuildWideMain
    \/ ComputePointsMain

SpecExtract == Init /\ [][NextExtract]_vars

\* Signs: yardage written with a leading minus sign, with a thousands
\* separator, with blanks around it and with a decimal point.
SignRows ==
    RowsOf({2}, {1}, {Allen}, {QB},
           {Rushing(<<"-", "4">>, NatStr(0)),
            Rushing(<<"-", "1", ",", "2", "0", "4">>, NatStr(1)),
            Rushing(<<"1", "2", ".", "5">>, NatStr(0)),
            Receiving(<<" ", "7", " ">>, <<"1", ",", "2", "0", "4">>, NatStr(0)),
            Passing(NatStr(310), NatStr(2), NatStr(1))})

NextSign ==
    \/ AddLongRow(SignRows)
    \/ BuildWideMain
    \/ ComputePointsMain

SpecSign == Init /\ [][NextSign]_vars

(***************************************************************************)
(* Vocabulary of the properties                                            *)
(***************************************************************************)
\* The rows of the long file in a category the wide builder keeps.
KeptInput == KeptRows(longFile)

\* The player-week key of a row, as the points program compares keys.
PlayerWeek(r) == <<IntStr(r.season), IntStr(r.week), r.team_abbr, r.athlete_name>>

InputKeys == {PlayerWeek(r) : r \in SeqRange(KeptInput)}

\* The kept input rows of one player-week, and what the extractor reads in them.
RowsOfKey(k) == SelectSeq(KeptInput, LAMBDA r : PlayerWeek(r) = k)

StatsOfKey(k) ==
    LET rows == RowsOfKey(k)
    IN  [i \in 1..Len(rows) |-> extract_numeric(rows[i].stat_group, rows[i].stats)]

\* The records after aggregation: the collapsed table of the last run.
Records == run.collapsed

RecordKeys == {KeyOf(Records[i], KEY_COLS) : i \in 1..Len(Records)}

PositionsReported(k) == \A r \in SeqRange(RowsOfKey(k)) : ~IsNaN(r.position)

(***************************************************************************)
(* C1-C5: aggregation                                                      *)
(***************************************************************************)
\* C1: after aggregation there is exactly one record per distinct
\* (season, week, team, player-name) key of the input: no key is lost and no
\* key appears in two records.
C1_OneRecordPerKey ==
    run.status = "ok" =>
        /\ RecordKeys = InputKeys
        /\ Cardinality(RecordKeys) = Len(Records)

\* The part of C1 that the collapse alone decides: no key appears twice, and
\* every record's key is a key of the input.
C1_NoKeyTwice ==
    run.status = "ok" =>
        /\ RecordKeys \subseteq InputKeys
        /\ Cardinality(RecordKeys) = Len(Records)

\* C2: when a player-week appears several times in one category (repeated or
\* cumulative snapshots), every numeric field of its record is the maximum of
\* that field over the duplicates, not their sum.
C2_DuplicatesTakeMax ==
    run.status = "ok" =>
        \A i \in 1..Len(Records) :
            LET k == KeyOf(Records[i], KEY_COLS)
                rows == RowsOfKey(k)
            IN  (/\ PositionsReported(k)
                 /\ \A r \in SeqRange(rows) : r.stat_group = rows[1].stat_group)
                => \A c \in SeqRange(WIDE_NUMERIC_COLS) :
                       Records[i][c] = ToFloat(MaxOf(SeqRange(Column(StatsOfKey(k), c))))

\* C3: rows of different categories for one player-week are combined
\* additively, field by field, into one record that keeps these values after
\* the collapse.
C3_CategoriesAdd ==
    run.status = "ok" =>
        \A i \in 1..Len(Records) :
            LET k == KeyOf(Records[i], KEY_COLS)
                rows == RowsOfKey(k)
            IN  (/\ PositionsReported(k)
                 /\ \A a, b \in 1..Len(rows) : a # b => rows[a].stat_group # rows[b].stat_group)
                => \A c \in SeqRange(WIDE_NUMERIC_COLS) :
                       Records[i][c] = ToFloat(SumSeq(Column(StatsOfKey(k), c)))

\* C4: position is carried through and never decides identity: a player-week
\* whose rows report a position is emitted with that position, and a
\* player-week whose position is missing is emitted with an empty position.
C4_PositionCarried ==
    run.status = "ok" =>
        \A k \in InputKeys :
            \E j \in 1..Len(pointsFile.rows) :
                /\ KeyOf(pointsFile.rows[j], KEY_COLS) = k
                /\ \A r \in SeqRange(RowsOfKey(k)) :
                       pointsFile.rows[j].position = IF IsNaN(r.position) THEN <<>> ELSE r.position

\* C5: the wide table has one row per (season, week, team, player, position).
C5_WideOneRowPerPlayerWeek ==
    wideFile.exists =>
        \A i, j \in 1..Len(wideFile.rows) :
            LET K(r) == <<r.season, r.week, r.team_abbr, r.athlete_name, r.position>>
            IN  K(wideFile.rows[i]) = K(wideFile.rows[j]) => i = j

(***************************************************************************)
(* C6: unit correction                                                     *)
(***************************************************************************)
YardCells(rows) == {rows[i][c] : i \in 1..Len(rows), c \in SeqRange(YARD_COLS)}

\* Whether some yardage of the batch, in yards, is strictly above 1000.
BatchOverLimit == \E y \in YardCells(Records) : y > YardLimit * YardDivisor

\* C6: unit correction is batch-wide and all-or-nothing: if the largest yardage
\* of the aggregated batch is strictly above 1000, every yardage field of every
\* record is a tenth of its aggregated value; otherwise no field changes.  No
\* other field changes in either case, and the notice is emitted exactly when
\* the correction is.
C6_UnitCorrectionAllOrNothing ==
    run.status = "ok" =>
        /\ Len(run.wide) = Len(Records)
        /\ run.notice = BatchOverLimit
        /\ \A i \in 1..Len(Records) :
               /\ \A c \in SeqRange(YARD_COLS) :
                      IF BatchOverLimit
                      THEN run.wide[i][c] * YardDivisor = Records[i][c]
                      ELSE run.wide[i][c] = Records[i][c]
               /\ \A c \in DOMAIN Records[i] \ SeqRange(YARD_COLS) :
                      run.wide[i][c] = Records[i][c]

\* A corrected batch in which one record alone would not have triggered the
\* correction, and was corrected all the same.
C6_Witness ==
    /\ run.status = "ok"
    /\ BatchOverLimit
    /\ \E i \in 1..Len(Records) :
           /\ \A c \in SeqRange(YARD_COLS) : Records[i][c] <= YardLimit * YardDivisor
           /\ \E c \in SeqRange(YARD_COLS) :
                  Records[i][c] > 0 /\ run.wide[i][c] * YardDivisor = Records[i][c]

(***************************************************************************)
(* C7-C8: weight resolution                                                *)
(***************************************************************************)
ScoredFields ==
    {"pass_yds", "pass_td", "pass_int", "rush_yds", "rush_td",
     "rec_rec", "rec_yds", "rec_td", "fum_lost", "xp_made"}

\* The rows of the scoring table that configure a field: a numeric identifier
\* that the catalog maps to it.
ConfiguredAt(field) ==
    {i \in 1..Len(scoringFile.rows) :
        /\ scoringFile.rows[i].statId.ok
        /\ scoringFile.rows[i].statId.v \in DOMAIN STATID_TO_METRIC
        /\ STATID_TO_METRIC[scoringFile.rows[i].statId.v].metric = field}

\* The point value of a row as read: a cell that is not a number reads as 0.
PointValue(i) ==
    IF scoringFile.rows[i].points.ok THEN scoringFile.rows[i].points.v ELSE 0

\* C7: the resolved table has a weight for each of the ten scored fields: the
\* configured point value (of the last row that configures the field) when
\* there is one, the documented default otherwise; a default never replaces a
\* configured value.  With rows [(25, 6.0), (999, 3.0)] pass_td is 6.0, 999 is
\* reported unknown and every other field is at its default.
C7_WeightsResolved ==
    run.status = "ok" =>
        /\ ScoredFields \subseteq DOMAIN run.weights
        /\ \A f \in ScoredFields :
               IF ConfiguredAt(f) = {}
               THEN run.weights[f] = defaults[f]
               ELSE run.weights[f] = PointValue(MaxOf(ConfiguredAt(f)))
        /\ run.unknown =
               {scoringFile.rows[i].statId.v : i \in
                   {j \in 1..Len(scoringFile.rows) :
                       /\ scoringFile.rows[j].statId.ok
                       /\ scoringFile.rows[j].statId.v \notin DOMAIN STATID_TO_METRIC}}
        /\ scoringFile.rows = <<ScoringRow(Num(25), Num(600)), ScoringRow(Num(999), Num(300))>>
               => /\ run.weights.pass_td = 600
                  /\ run.unknown = {999}
                  /\ \A f \in ScoredFields \ {"pass_td"} : run.weights[f] = defaults[f]

\* The run on [(25, 6.0), (999, 3.0)].
C7_Witness ==
    /\ run.status = "ok"
    /\ scoringFile.rows = <<ScoringRow(Num(25), Num(600)), ScoringRow(Num(999), Num(300))>>
    /\ run.weights.pass_td = 600
    /\ run.weights.pass_td # defaults.pass_td

\* The identifiers the catalog names as known but not applied: the field-goal
\* distance buckets.
KnownUnsupported == {74, 77, 80, 83, 88}

\* C8: a row whose identifier is known but unsupported is not reported as
\* unknown; only identifiers not recognised at all are.
C8_UnsupportedNotUnknown ==
    run.status = "ok" =>
        \A i \in 1..Len(scoringFile.rows) :
            (scoringFile.rows[i].statId.ok
                /\ scoringFile.rows[i].statId.v \in KnownUnsupported)
            => scoringFile.rows[i].statId.v \notin run.unknown

(***************************************************************************)
(* C9-C10: points                                                          *)
(***************************************************************************)
\* The values a changed field-goal count is drawn from, in the float unit.
FieldGoalValues == {ToFloat(n) : n \in 0..3}

\* C9: field-goal makes never influence points: a record that differs from a
\* scored record only in k_fgm and k_fga gets the same subtotals and the same
\* total, and the kicking subtotal is xp_made times the xp_made weight.
C9_FieldGoalsNeverScore ==
    run.status = "ok" =>
        \A i \in 1..Len(run.wide) :
            /\ \A m, a \in FieldGoalValues :
                   PointsRow([run.wide[i] EXCEPT !.k_fgm = m, !.k_fga = a], run.weights)
                       = pointsFile.rows[i]
            /\ pointsFile.rows[i].pts_kick
                   = Round2(run.wide[i].xp_made * run.weights.xp_made)

\* A kicker with field goals made, scored under a table that carries a
\* field-goal identifier.
C9_Witness ==
    /\ run.status = "ok"
    /\ \E i \in 1..Len(run.wide) : run.wide[i].k_fgm > 0 /\ run.wide[i].xp_made > 0
    /\ \E j \in 1..Len(scoringFile.rows) : scoringFile.rows[j].statId.v = 74

\* C10: each subtotal is the sum of its own fields times their own weights:
\* passing = yards, touchdowns, interceptions; rushing = yards, touchdowns;
\* receiving = receptions, yards, touchdowns; miscellaneous = fumbles lost; a
\* record with no stats in a category gets 0 for it.  Passing {300, 2, 1}
\* under weights {0.04, 4, -2} gives 18.00, and a total of 18.00 when the
\* other subtotals are 0.
C10_Subtotals ==
    run.status = "ok" =>
        /\ Len(pointsFile.rows) = Len(run.wide)
        /\ \A i \in 1..Len(run.wide) :
               LET r == run.wide[i]
                   w == run.weights
                   o == pointsFile.rows[i]
               IN  /\ o.pts_pass = Round2(r.pass_yds * w.pass_yds + r.pass_td * w.pass_td
                                              + r.pass_int * w.pass_int)
                   /\ o.pts_rush = Round2(r.rush_yds * w.rush_yds + r.rush_td * w.rush_td)
                   /\ o.pts_rec = Round2(r.rec_rec * w.rec_rec + r.rec_yds * w.rec_yds
                                             + r.rec_td * w.rec_td)
                   /\ o.pts_misc = Round2(r.fum_lost * w.fum_lost)
                   /\ (r.pass_yds = 0 /\ r.pass_td = 0 /\ r.pass_int = 0) => o.pts_pass = 0
                   /\ (r.rush_yds = 0 /\ r.rush_td = 0) => o.pts_rush = 0
                   /\ (r.rec_rec = 0 /\ r.rec_yds = 0 /\ r.rec_td = 0) => o.pts_rec = 0
                   /\ r.fum_lost = 0 => o.pts_misc = 0
                   /\ (/\ r.pass_yds = ToFloat(300) /\ r.pass_td = ToFloat(2)
                       /\ r.pass_int = ToFloat(1)
                       /\ w.pass_yds = 4 /\ w.pass_td = 400 /\ w.pass_int = -200)
                      => /\ o.pts_pass = 1800
                         /\ (o.pts_rush = 0 /\ o.pts_rec = 0 /\ o.pts_kick = 0 /\ o.pts_misc = 0)
                                => o.pts_ppr = 1800

\* The record of the example, scored 18.00 in passing and in total.
C10_Witness ==
    /\ run.status = "ok"
    /\ \E i \in 1..Len(run.wide) :
           /\ run.wide[i].pass_yds = ToFloat(300)
           /\ run.wide[i].pass_td = ToFloat(2)
           /\ run.wide[i].pass_int = ToFloat(1)
           /\ run.weights.pass_td = 400
           /\ pointsFile.rows[i].pts_pass = 1800
           /\ pointsFile.rows[i].pts_ppr = 1800

(***************************************************************************)
(* C11: rounding                                                           *)
(***************************************************************************)
\* The five unrounded subtotals of a scored record, in thousandths.
Unrounded(row, weights) ==
    <<pts_pass(row, weights), pts_rush(row, weights), pts_rec(row, weights),
      pts_kick(row, weights), pts_misc(row, weights)>>

\* The five stored subtotals of a points row, in hundredths.
Stored(o) == <<o.pts_pass, o.pts_rush, o.pts_rec, o.pts_kick, o.pts_misc>>

\* Whether some product of the run lies exactly between two hundredths, where
\* the direction of round(2) depends on the binary value of the product.
RoundingTie ==
    \E i \in 1..Len(run.wide) : \E j \in 1..5 :
        2 * (Unrounded(run.wide[i], run.weights)[j] % YardDivisor) = YardDivisor

\* C11: each of the five subtotals is rounded to two decimals on its own, and
\* the stored total is exactly the sum of the five stored subtotals in every
\* row; where that sum differs from the rounding of the unrounded sum, the
\* total is the sum of the stored subtotals.
C11_TotalIsSumOfRounded ==
    run.status = "ok" =>
        \A i \in 1..Len(pointsFile.rows) :
            LET o == pointsFile.rows[i]
                u == Unrounded(run.wide[i], run.weights)
            IN  /\ \A j \in 1..5 : Stored(o)[j] = Round2(u[j])
                /\ o.pts_ppr = SumSeq(Stored(o))
                /\ SumSeq(Stored(o)) # Round2(SumSeq(u))
                       => o.pts_ppr # Round2(SumSeq(u))

\* A row whose subtotals 4.016 and 4.016 are stored as 4.02 and 4.02 with a
\* total of 8.04, where the unrounded sum 8.032 rounds to 8.03.
C11_Witness ==
    /\ run.status = "ok"
    /\ ~RoundingTie
    /\ \E i \in 1..Len(pointsFile.rows) :
           /\ pts_pass(run.wide[i], run.weights) % YardDivisor # 0
           /\ pts_rush(run.wide[i], run.weights) % YardDivisor # 0
           /\ pointsFile.rows[i].pts_ppr
                  # Round2(SumSeq(Unrounded(run.wide[i], run.weights)))

(***************************************************************************)
(* C12: row order                                                          *)
(***************************************************************************)
\* The sort key (week number, team, player name) of a wide row, whose week is
\* an integer, and of a points row, whose week is the text of that integer.
WideOrderKey(r) == <<r.week, r.team_abbr, r.athlete_name>>

PointsOrderKey(o) == <<DigitsVal(o.week), o.team_abbr, o.athlete_name>>

OrderKinds == <<"int", "str", "str">>

\* The part of C12 about the wide table: its rows are in ascending
\* (week number, team, player name) order.
C12_WideOrdered ==
    wideFile.exists =>
        \A i, j \in 1..Len(wideFile.rows) :
            i < j => ~TupleLess(WideOrderKey(wideFile.rows[j]),
                                WideOrderKey(wideFile.rows[i]), OrderKinds)

\* C12: the rows of the points table, and of the wide table, are in ascending
\* order of week number, then team, then player name, for every batch,
\* batches with weeks of one and of two digits included.
C12_TablesOrdered ==
    /\ C12_WideOrdered
    /\ run.status = "ok" =>
           \A i, j \in 1..Len(pointsFile.rows) :
               i < j => ~TupleLess(PointsOrderKey(pointsFile.rows[j]),
                                   PointsOrderKey(pointsFile.rows[i]), OrderKinds)

\* What the points table is ordered by: the key columns compared as text,
\* season first, so that week "10" precedes week "2".
C12_PointsOrderedAsText ==
    run.status = "ok" =>
        \A i, j \in 1..Len(pointsFile.rows) :
            i < j => TupleLess(KeyOf(pointsFile.rows[i], KEY_COLS),
                               KeyOf(pointsFile.rows[j], KEY_COLS), key_kinds)

InputsValid == wideFile.exists /\ scoringFile.exists /\ scoringFile.cols

\* C14: missing required input is fatal before any output: when the wide
\* table is absent, the scoring table is absent, or the scoring table lacks
\* the statId or points column, an execution of the points program ends with
\* a failure status and the points table is neither written nor changed; the
\* points table is written only by an execution that found both inputs
\* valid.
C14_MissingInputFatal ==
    [][/\ ~InputsValid => pointsFile' = pointsFile
       /\ (~InputsValid /\ run' # run) => run'.status = "fail"
       /\ pointsFile' # pointsFile => (InputsValid /\ run'.status = "ok")]_vars

\* A failed execution on a scoring table that lost a required column, after
\* an earlier execution had written a points table with rows: the table is
\* still the one written from the pass_td weight of 6.0.
C14_Witness ==
    /\ run.status = "fail"
    /\ wideFile.exists /\ scoringFile.exists /\ ~scoringFile.cols
    /\ pointsFile.exists
    /\ \E i \in 1..Len(pointsFile.rows) : pointsFile.rows[i].pts_pass = 2200

(***************************************************************************)
(* C15: the extractor is total                                             *)
(***************************************************************************)
\* The category a name dispatches to: the first of the known names it
\* contains, case-insensitively; "none" when it contains none.
Dispatched(name) ==
    LET sg == Lower(name)
    IN  IF Contains(sg, <<"p", "a", "s", "s", "i", "n", "g">>) THEN "passing"
        ELSE IF Contains(sg, <<"r", "u", "s", "h", "i", "n", "g">>) THEN "rushing"
        ELSE IF Contains(sg, <<"r", "e", "c", "e", "i", "v", "i", "n", "g">>) THEN "receiving"
        ELSE IF Contains(sg, <<"f", "u", "m", "b", "l", "e", "s">>) \/ Contains(sg, <<"m", "i", "s", "c">>) THEN "fumbles"
        ELSE IF Contains(sg, <<"k", "i", "c", "k", "i", "n", "g">>) THEN "kicking"
        ELSE "none"

\* The fields of each category's domain.
CategoryFields ==
    [passing |-> {"pass_cmp", "pass_att", "pass_yds", "pass_td", "pass_int"},
     rushing |-> {"rush_att", "rush_yds", "rush_td"},
     receiving |-> {"rec_tgt", "rec_rec", "rec_yds", "rec_td"},
     fumbles |-> {"fum_lost"},
     kicking |-> {"k_fgm", "k_fga", "xp_made", "xp_att"},
     none |-> {}]

\* The labels that stand for two numbers, "made-attempted".
PairLabels == {<<"C", "/", "A", "T", "T">>, <<"C", "M", "P", "/", "A", "T", "T">>, <<"F", "G", "M", "-", "A">>, <<"X", "P", "M", "-", "A">>}

\* The labels a field is read from.
FieldLabels ==
    [pass_cmp |-> {<<"C", "/", "A", "T", "T">>, <<"C", "M", "P", "/", "A", "T", "T">>, <<"C", "M", "P">>, <<"C">>},
     pass_att |-> {<<"C", "/", "A", "T", "T">>, <<"C", "M", "P", "/", "A", "T", "T">>, <<"A", "T", "T">>},
     pass_yds |-> {<<"Y", "D", "S">>}, pass_td |-> {<<"T", "D">>}, pass_int |-> {<<"I", "N", "T">>},
     rush_att |-> {<<"C", "A", "R">>, <<"A", "T", "T">>}, rush_yds |-> {<<"Y", "D", "S">>}, rush_td |-> {<<"T", "D">>},
     rec_tgt |-> {<<"T", "G", "T">>, <<"T", "A", "R">>}, rec_rec |-> {<<"R", "E", "C">>, <<"R", "E", "C", "E", "P", "T", "I", "O", "N", "S">>},
     rec_yds |-> {<<"Y", "D", "S">>}, rec_td |-> {<<"T", "D">>},
     fum_lost |-> {<<"L", "O", "S", "T">>, <<"F", "U", "M", " ", "L", "O", "S", "T">>, <<"L", "S", "T">>, <<"F", "L">>},
     k_fgm |-> {<<"F", "G", "M", "-", "A">>, <<"F", "G", "M">>, <<"F", "G">>}, k_fga |-> {<<"F", "G", "A">>, <<"F", "G", "M", "-", "A">>},
     xp_made |-> {<<"X", "P", "M", "-", "A">>, <<"X", "P", "M">>}, xp_att |-> {<<"X", "P", "M", "-", "A">>, <<"X", "P", "A">>}]

\* The labels of a payload that stand for label, whatever their case and the
\* blanks around them.
LabelsFor(stats, label) == {k \in DOMAIN stats : Strip(Upper(k)) = label}

\* Whether a value is the text of an integer: an optional sign and digits,
\* with thousands separators and blanks around it allowed.
IntegerText(v) ==
    LET s == Strip(RemoveCommas(PyStr(v)))
    IN  \/ AllDigits(s)
        \/ s # <<>> /\ Head(s) \in {"-", "+"} /\ AllDigits(Tail(s))

\* Whether the value a payload gives under a label cannot be read: for a pair
\* label it is not two numbers around "/" or "-", for any other label it is
\* empty, absent or not the text of an integer.
Unreadable(label, v) ==
    IF label \in PairLabels THEN PairSplits(PyStr(v)) = {} ELSE ~IntegerText(v)

\* What C15 says of the row the extractor returns for one payload.
CanonicalRow(name, stats) ==
    LET out == extract_numeric(name, stats)
        domain == CategoryFields[Dispatched(name)]
    IN  /\ DOMAIN out = StatFields
        /\ Cardinality(DOMAIN out) = 17
        /\ \A f \in StatFields : out[f] \in Int
        /\ \A f \in StatFields \ domain : out[f] = 0
        /\ Dispatched(name) = "none" => out = ZeroStats
        /\ \A f \in domain :
               /\ (\A l \in FieldLabels[f] : LabelsFor(stats, l) = {}) => out[f] = 0
               /\ (\A l \in FieldLabels[f] : \A k \in LabelsFor(stats, l) :
                       Unreadable(l, stats[k])) => out[f] = 0

\* C15: for every category name and every label-to-value mapping the
\* extractor never raises and returns a row with all 17 canonical fields: a
\* field whose labels are all missing from the payload is 0, a field outside
\* the dispatched category's domain is 0, a field whose values are empty, not
\* a number or an unmatched pair is 0, and a name matching none of passing,
\* rushing, receiving, fumbles/misc, kicking gives a row of zeros.
C15_ExtractorTotal ==
    \A i \in 1..Len(longFile) :
        /\ ~extract_numeric_raises(longFile[i].stat_group, longFile[i].stats)
        /\ CanonicalRow(longFile[i].stat_group, longFile[i].stats)

\* What holds of the extractor: the same, for the payloads whose values have
\* no more characters than int() converts.
C15_TotalWithinIntLimit ==
    \A i \in 1..Len(longFile) :
        (\A k \in DOMAIN longFile[i].stats :
             ~IntTooLong(PyStr(longFile[i].stats[k])))
        => /\ ~extract_numeric_raises(longFile[i].stat_group, longFile[i].stats)
           /\ CanonicalRow(longFile[i].stat_group, longFile[i].stats)

(***************************************************************************)
(* C16: sign of the canonical fields                                       *)
(***************************************************************************)
\* C16: every field of every canonical row the extractor produces is a
\* non-negative integer, whatever the raw value (a leading minus sign, a
\* thousands separator, blanks, a decimal point), and so is every field of
\* the wide table built from these rows.
C16_FieldsNonNegative ==
    /\ \A i \in 1..Len(longFile) :
           ~extract_numeric_raises(longFile[i].stat_group, longFile[i].stats)
           => \A f \in StatFields :
                  extract_numeric(longFile[i].stat_group, longFile[i].stats)[f] \in Nat
    /\ wideFile.exists =>
           \A i \in 1..Len(wideFile.rows) : \A f \in StatFields :
               wideFile.rows[i][f] \in Nat

\* The text of a value as the extractor reads it: separators and the blanks
\* around it removed.
ValueText(v) == Strip(RemoveCommas(PyStr(v)))

\* Whether a value is written as a negative integer.
WrittenNegative(v) ==
    /\ ValueText(v) # <<>>
    /\ Head(ValueText(v)) = "-"
    /\ AllDigits(Tail(ValueText(v)))

\* The fields read from one label alone.
SingleLabelFields == {f \in StatFields : Cardinality(FieldLabels[f]) = 1}

\* What the amended C16 says of the row the extractor returns for one payload.
SignedRow(name, stats) ==
    LET out == extract_numeric(name, stats)
        domain == CategoryFields[Dispatched(name)]
    IN  \A f \in StatFields :
            /\ out[f] \in Int
            /\ out[f] < 0 =>
                   /\ f \in domain
                   /\ \E l \in FieldLabels[f] \ PairLabels :
                          \E k \in LabelsFor(stats, l) : WrittenNegative(stats[k])
            /\ (f \in domain \cap SingleLabelFields) =>
                   \A l \in FieldLabels[f] : \A k \in LabelsFor(stats, l) :
                       WrittenNegative(stats[k])
                           => out[f] = 0 - DigitsVal(Tail(ValueText(stats[k])))

\* C16 as amended: every field of every canonical row is an integer; it is
\* negative only where the raw value read for it is written with a leading
\* minus sign, and a field read from one label keeps the number so written
\* ("-4" gives -4); every field of the wide table is an integer, negative
\* only where a row of its group is.
C16_FieldsSigned ==
    /\ \A i \in 1..Len(longFile) :
           ~extract_numeric_raises(longFile[i].stat_group, longFile[i].stats)
           => SignedRow(longFile[i].stat_group, longFile[i].stats)
    /\ wideFile.exists =>
           \A i \in 1..Len(wideFile.rows) : \A f \in StatFields :
               /\ wideFile.rows[i][f] \in Int
               /\ wideFile.rows[i][f] < 0 =>
                      \E r \in SeqRange(KeptInput) :
                          /\ KeyOf(r, base_cols) = KeyOf(wideFile.rows[i], base_cols)
                          /\ extract_numeric(r.stat_group, r.stats)[f] < 0

\* A wide table with negative rushing yards, built from a rushing payload
\* whose YDS is "-4".
C16_Witness ==
    /\ wideFile.exists
    /\ \E i \in 1..Len(wideFile.rows) : wideFile.rows[i].rush_yds < 0
    /\ \E j \in 1..Len(longFile) :
           extract_numeric(longFile[j].stat_group, longFile[j].stats).rush_yds = -4

(***************************************************************************)
(* C17: plausibility warnings                                              *)
(***************************************************************************)
\* Whether a record is implausible: receiving yards above 300, receptions
\* above 25, rushing yards above 300 or passing yards above 700.
Implausible(r) ==
    \/ r.rec_yds > ToFloat(300)
    \/ r.rec_rec > ToFloat(25)
    \/ r.rush_yds > ToFloat(300)
    \/ r.pass_yds > ToFloat(700)

\* The part of C17 about the output: an implausible record is emitted, and no
\* field of it was changed because it is implausible (a change comes with
\* the unit-correction notice alone).
C17_ImplausibleEmitted ==
    run.status = "ok" =>
        \A i \in 1..Len(Records) :
            Implausible(Records[i]) =>
                /\ i \in 1..Len(pointsFile.rows)
                /\ KeyOf(pointsFile.rows[i], KEY_COLS) = KeyOf(Records[i], KEY_COLS)
                /\ ~run.notice => run.wide[i] = Records[i]

\* C17: after aggregation every record whose receiving yards exceed 300,
\* receptions exceed 25, rushing yards exceed 300 or passing yards exceed 700
\* is flagged with a plausibility warning, and is still emitted with its
\* values by a run that ends normally.
C17_ImplausibleFlagged ==
    /\ C17_ImplausibleEmitted
    /\ run.status = "ok" =>
           \A i \in 1..Len(Records) :
               Implausible(Records[i]) => KeyOf(Records[i], KEY_COLS) \in run.warnings

====
